---- MODULE Spec2Model ----
(***************************************************************************)
(* Model of Code/math/Linear.cuH: the host function linear (matmul, an     *)
(* OpenMP bias pass, ReLU), the device kernel addBiasEfficient, and the    *)
(* host orchestration linearCUBLAS (flatten, allocate, copy, cuBLAS GEMM,  *)
(* bias kernel, copy back, synchronize, reassemble, free).                 *)
(*                                                                         *)
(* Three specifications share the module:                                  *)
(*   SpecLinear  one call of linear, its OpenMP workers interleaved;       *)
(*   SpecKernel  one launch of addBiasEfficient, its threads interleaved;  *)
(*   Spec        one call of linearCUBLAS: the host's program order, the   *)
(*               device's stream queues, a device call that may fail, and  *)
(*               the stream the caller's cuBLAS handle is bound to.        *)
(* floats are modelled as integers: every property below is about which    *)
(* element is combined with which, not about rounding.                     *)
(***************************************************************************)
EXTENDS Integers, Sequences, FiniteSets, TLC

VARIABLES
    \* ---- linearCUBLAS (Spec) ----
    input, weights, bias,   \* the arguments (nested row-major vectors)
    hstream,                \* stream the handle is bound to: 0 = legacy default
    fault,                  \* the step whose call fails ("none": all succeed)
    junk,                   \* value read from memory nobody has written
    pc,                     \* the host's position in linearCUBLAS
    flatInput, flatWeights, flatBias, flatOutput,
    dev,                    \* d_input, d_weights, d_bias, d_output
    queue0, queueH,         \* pending device operations: stream 0, handle's stream
    issued, done_ops,       \* device operations in issue order / completion order
    syncReturned,           \* cudaStreamSynchronize(0) has waited and returned
    readClean,              \* what held when the host read flatOutput
    apiCalls,               \* device API calls made so far
    output, result,         \* the returned matrix; how the call ended
    \* ---- addBiasEfficient (SpecKernel) ----
    k_batch, k_outDim,      \* batchSize, outputDim of the launch
    k_out, k_bias,          \* device arrays output and bias (0-based)
    k_launch,               \* the two arrays as they were at the launch
    k_pc, k_reg,            \* per thread inside the if: position, loaded value
    k_exited,               \* blocks whose out-of-range threads have returned
    k_writers, k_oob,       \* who wrote each index; indices written outside
    \* ---- linear (SpecLinear) ----
    l_input, l_weights, l_bias,
    l_pc,                   \* "matmul", "bias", "relu", "done"
    l_out,                  \* the local matrix output
    l_claimed,              \* loop iterations i handed to some worker
    w_row, w_col, w_phase, w_reg,  \* per OpenMP worker
    l_adds                  \* how many times output[i][j] received a bias

cubVars == <<input, weights, bias, hstream, fault, junk, pc, flatInput,
             flatWeights, flatBias, flatOutput, dev, queue0, queueH, issued,
             done_ops, syncReturned, readClean, apiCalls, output, result>>
kerVars == <<k_batch, k_outDim, k_out, k_bias, k_launch, k_pc, k_reg, k_exited,
             k_writers, k_oob>>
linVars == <<l_input, l_weights, l_bias, l_pc, l_out, l_claimed, w_row,
             w_col, w_phase, w_reg, l_adds>>
vars == <<cubVars, kerVars, linVars>>

(***************************************************************************)
(* Bounds of the explored inputs.                                          *)
(***************************************************************************)
MaxBatch == 2
MaxIn == 2
MaxOut == 2
MaxSeed == 3
NumWorkers == 2

\* Values an uninitialised or out-of-bounds read may yield.
JunkVals == {0, 9}

\* Matrix entries are drawn from a family indexed by a seed: entries differ
\* along rows and along columns and take both signs.
Elem(s, salt, r, c) == (((s + 1) * (2 * r + 3 * c + salt)) % 5) - 2
GenMatrix(s, salt, rows, cols) ==
    [r \in 1..rows |-> [c \in 1..cols |-> Elem(s, salt, r, c)]]
GenVector(s, salt, n) == [c \in 1..n |-> Elem(s, salt, 0, c)]

RECURSIVE SumTo(_, _)
SumTo(f, n) == IF n = 0 THEN 0 ELSE f[n] + SumTo(f, n - 1)

RECURSIVE Concat(_, _)
Concat(rows, n) == IF n = 0 THEN <<>> ELSE Concat(rows, n - 1) \o rows[n]

(***************************************************************************)
(* addBiasEfficient: the launch geometry and one thread's code.            *)
(***************************************************************************)
BlockDim == 16

GridX(outputDim) == (outputDim + 15) \div 16
GridY(batchSize) == (batchSize + 15) \div 16

LaunchBlocks(batchSize, outputDim) ==
    {<<bx, by>> : bx \in 0..(GridX(outputDim) - 1), by \in 0..(GridY(batchSize) - 1)}

LaunchThreads(batchSize, outputDim) ==
    [bx : 0..(GridX(outputDim) - 1), by : 0..(GridY(batchSize) - 1),
     tx : 0..(BlockDim - 1), ty : 0..(BlockDim - 1)]

ThreadRow(t) == t.by * BlockDim + t.ty
ThreadCol(t) == t.bx * BlockDim + t.tx

KernelGuard(t, batchSize, outputDim) ==
    ThreadRow(t) < batchSize /\ ThreadCol(t) < outputDim

KernelIdxBatchStride(t, batchSize, outputDim) == ThreadRow(t) * batchSize + ThreadCol(t)
KernelIdx(t, batchSize, outputDim) == ThreadRow(t) * outputDim + ThreadCol(t)

\* A device read: an index nobody allocated yields an arbitrary value.
ReadAt(arr, p, j) == IF p \in DOMAIN arr THEN arr[p] ELSE j

(***************************************************************************)
(* The launch as one device operation of the stream (used by Spec; the     *)
(* threads' interleavings are explored under SpecKernel): every thread     *)
(* that passes the guard adds bias[col] at its index.                      *)
(***************************************************************************)
AddBiasGrid(out, b, batchSize, outputDim, j) ==
    [p \in DOMAIN out |->
        LET ws == {t \in LaunchThreads(batchSize, outputDim) :
                      /\ KernelGuard(t, batchSize, outputDim)
                      /\ KernelIdx(t, batchSize, outputDim) = p}
        IN  IF ws = {} THEN out[p]
            ELSE LET t == CHOOSE t \in ws : TRUE
                 IN  out[p] + ReadAt(b, ThreadCol(t), j)]

(***************************************************************************)
(* cublasSgemm on column-major operands:                                   *)
(*   C = alpha * op(A) * op(B) + beta * C, op(A) m x k, op(B) k x n,       *)
(*   C m x n with leading dimension ldc.                                   *)
(***************************************************************************)
Sgemm(transa, transb, m, n, k, alpha, A, lda, B, ldb, beta, C, ldc, j) ==
    LET opA(i, l) == IF transa = "N" THEN ReadAt(A, i + l * lda, j)
                                     ELSE ReadAt(A, l + i * lda, j)
        opB(l, c) == IF transb = "N" THEN ReadAt(B, l + c * ldb, j)
                                     ELSE ReadAt(B, c + l * ldb, j)
        cell(i, c) == alpha * SumTo([l \in 1..k |-> opA(i, l - 1) * opB(l - 1, c)], k)
        hits(p) == {ic \in (0..(m - 1)) \X (0..(n - 1)) : ic[1] + ic[2] * ldc = p}
    IN  [p \in DOMAIN C |->
            IF hits(p) = {} THEN C[p]
            ELSE LET ic == CHOOSE ic \in hits(p) : TRUE
                 IN  cell(ic[1], ic[2]) + beta * C[p]]

\* The call with the weights taken untransposed (leading dimension outputDim).
GemmCallNoTranspose(dw, di, dout, batchSize, inputDim, outputDim, j) ==
    Sgemm("N", "N", outputDim, batchSize, inputDim, 1,
          dw, outputDim, di, inputDim, 0, dout, outputDim, j)

GemmCall(dw, di, dout, batchSize, inputDim, outputDim, j) ==
    Sgemm("T", "N", outputDim, batchSize, inputDim, 1,
          dw, inputDim, di, inputDim, 0, dout, outputDim, j)

(***************************************************************************)
(* linearCUBLAS: dimensions, host buffers, device buffers.                 *)
(***************************************************************************)
batchSize == Len(input)
inputDim == Len(input[1])
outputDim == Len(weights)
inputSize == batchSize * inputDim
weightSize == outputDim * inputDim
biasSize == Len(bias)
outputSize == batchSize * outputDim

Buffers == {"d_input", "d_weights", "d_bias", "d_output"}

\* The contents a device operation sees: memory that is not a live
\* allocation (an uninitialised pointer, a freed buffer) reads as junk.
DevData(b) == IF dev[b].state = "alloc" THEN dev[b].data ELSE <<>>

DevStore(b, data) ==
    IF dev[b].state = "alloc" THEN [dev EXCEPT ![b].data = data] ELSE dev

\* flat.data()[p]: past the vector's end the read is out of bounds.
HostRead(v, p) == IF p + 1 \in 1..Len(v) THEN v[p + 1] ELSE junk

FreeOps == {"free_input", "free_weights", "free_bias", "free_output"}
FreedBuffer(op) ==
    CASE op = "free_input" -> "d_input"
      [] op = "free_weights" -> "d_weights"
      [] op = "free_bias" -> "d_bias"
      [] op = "free_output" -> "d_output"

\* Device memory after the device has executed operation op.
DevAfter(op) ==
    CASE op = "h2d_input" ->
            DevStore("d_input", [p \in 0..(inputSize - 1) |-> HostRead(flatInput, p)])
      [] op = "h2d_weights" ->
            DevStore("d_weights", [p \in 0..(weightSize - 1) |-> HostRead(flatWeights, p)])
      [] op = "h2d_bias" ->
            DevStore("d_bias", [p \in 0..(biasSize - 1) |-> HostRead(flatBias, p)])
      [] op = "gemm" ->
            DevStore("d_output",
                     GemmCall(DevData("d_weights"), DevData("d_input"), DevData("d_output"),
                              batchSize, inputDim, outputDim, junk))
      [] op = "bias_kernel" ->
            DevStore("d_output",
                     AddBiasGrid(DevData("d_output"), DevData("d_bias"),
                                 batchSize, outputDim, junk))
      [] op \in FreeOps ->
            [dev EXCEPT ![FreedBuffer(op)].state = IF @ = "alloc" THEN "freed" ELSE @]
      [] OTHER -> dev

\* flatOutput after the device has executed operation op.
HostAfter(op) ==
    IF op = "d2h"
    THEN [p \in 1..outputSize |-> ReadAt(DevData("d_output"), p - 1, junk)]
    ELSE flatOutput

(***************************************************************************)
(* linearCUBLAS: the host's steps, in program order.  No step tests a      *)
(* shape and no step reads a status code: a call that fails leaves its     *)
(* effect undone and the host proceeds.                                    *)
(***************************************************************************)
DeviceSteps == {"malloc_input", "malloc_weights", "malloc_bias", "malloc_output",
                "h2d_input", "h2d_weights", "h2d_bias", "gemm", "bias_kernel",
                "d2h", "sync"} \cup FreeOps
Faults == {"none", "reassemble"} \cup DeviceSteps

kerFrozen == UNCHANGED kerVars
linFrozen == UNCHANGED linVars
others == kerFrozen /\ linFrozen

\* lines 73-94
Flatten ==
    /\ pc = "flatten"
    /\ flatInput' = Concat(input, Len(input))
    /\ flatWeights' = Concat(weights, Len(weights))
    /\ flatBias' = bias
    /\ flatOutput' = [p \in 1..outputSize |-> 0]
    /\ pc' = "malloc_input"
    /\ UNCHANGED <<input, weights, bias, hstream, fault, junk, dev, queue0, queueH,
                   issued, done_ops, syncReturned, readClean, apiCalls, output, result>>
    /\ others

\* cudaMallocAsync(&buf, n * sizeof(float), 0): on failure buf stays uninitialised.
Malloc(step, next, buf, n) ==
    /\ pc = step
    /\ pc' = next
    /\ apiCalls' = apiCalls + 1
    /\ dev' = IF fault = step THEN dev
              ELSE [dev EXCEPT ![buf] = [state |-> "alloc", data |-> [p \in 0..(n - 1) |-> junk]]]
    /\ UNCHANGED <<input, weights, bias, hstream, fault, junk, flatInput, flatWeights,
                   flatBias, flatOutput, queue0, queueH, issued, done_ops, syncReturned,
                   readClean, output, result>>
    /\ others

MallocInput == Malloc("malloc_input", "malloc_weights", "d_input", inputSize)
MallocWeights == Malloc("malloc_weights", "malloc_bias", "d_weights", weightSize)
MallocBias == Malloc("malloc_bias", "malloc_output", "d_bias", biasSize)
MallocOutput == Malloc("malloc_output", "h2d_input", "d_output", outputSize)

\* An asynchronous operation put on stream 0: the host goes on at once.
Issue0(step, next) ==
    /\ pc = step
    /\ pc' = next
    /\ apiCalls' = apiCalls + 1
    /\ IF fault = step
       THEN UNCHANGED <<queue0, issued>>
       ELSE /\ queue0' = Append(queue0, step)
            /\ issued' = Append(issued, step)
    /\ UNCHANGED <<input, weights, bias, hstream, fault, junk, flatInput, flatWeights,
                   flatBias, flatOutput, dev, queueH, done_ops, syncReturned,
                   readClean, output, result>>
    /\ others

H2DInput == Issue0("h2d_input", "h2d_weights")
H2DWeights == Issue0("h2d_weights", "h2d_bias")
H2DBias == Issue0("h2d_bias", "gemm")

\* cublasSgemm(handle, ...): queued on the stream the handle is bound to.
GemmIssue ==
    /\ pc = "gemm"
    /\ pc' = "bias_kernel"
    /\ apiCalls' = apiCalls + 1
    /\ IF fault = "gemm"
       THEN UNCHANGED <<queue0, queueH, issued>>
       ELSE /\ issued' = Append(issued, "gemm")
            /\ IF hstream = 0
               THEN queue0' = Append(queue0, "gemm") /\ UNCHANGED queueH
               ELSE queueH' = Append(queueH, "gemm") /\ UNCHANGED queue0
    /\ UNCHANGED <<input, weights, bias, hstream, fault, junk, flatInput, flatWeights,
                   flatBias, flatOutput, dev, done_ops, syncReturned, readClean,
                   output, result>>
    /\ others

KernelLaunch == Issue0("bias_kernel", "d2h")
D2HIssue == Issue0("d2h", "sync")

\* cudaStreamSynchronize(0): blocks until stream 0 has drained; a failing
\* call returns its error at once and the host goes on.
Sync ==
    /\ pc = "sync"
    /\ fault = "sync" \/ queue0 = <<>>
    /\ pc' = "reassemble"
    /\ apiCalls' = apiCalls + 1
    /\ syncReturned' = (fault # "sync")
    /\ UNCHANGED <<input, weights, bias, hstream, fault, junk, flatInput, flatWeights,
                   flatBias, flatOutput, dev, queue0, queueH, issued, done_ops,
                   readClean, output, result>>
    /\ others

\* lines 132-134: the host reads flatOutput; the vectors' allocation may throw.
Reassemble ==
    /\ pc = "reassemble"
    /\ IF fault = "reassemble"
       THEN /\ pc' = "ended"
            /\ result' = "exception"
            /\ UNCHANGED <<output, readClean>>
       ELSE /\ pc' = "free_input"
            /\ output' = [i \in 1..batchSize |->
                            [c \in 1..outputDim |-> flatOutput[(i - 1) * outputDim + c]]]
            /\ readClean' = (/\ syncReturned
                             /\ \E n \in 1..Len(done_ops) : done_ops[n] = "d2h"
                             /\ queue0 = <<>>
                             /\ queueH = <<>>)
            /\ UNCHANGED result
    /\ UNCHANGED <<input, weights, bias, hstream, fault, junk, flatInput, flatWeights,
                   flatBias, flatOutput, dev, queue0, queueH, issued, done_ops,
                   syncReturned, apiCalls>>
    /\ others

FreeInput == Issue0("free_input", "free_weights")
FreeWeights == Issue0("free_weights", "free_bias")
FreeBias == Issue0("free_bias", "free_output")
FreeOutput == Issue0("free_output", "return")

Return ==
    /\ pc = "return"
    /\ pc' = "ended"
    /\ result' = "returned"
    /\ UNCHANGED <<input, weights, bias, hstream, fault, junk, flatInput, flatWeights,
                   flatBias, flatOutput, dev, queue0, queueH, issued, done_ops,
                   syncReturned, readClean, apiCalls, output>>
    /\ others

(***************************************************************************)
(* The device: each stream executes its operations in issue order; two     *)
(* streams that do not synchronise with each other run independently.      *)
(***************************************************************************)
DevExec0 ==
    /\ queue0 # <<>>
    /\ dev' = DevAfter(Head(queue0))
    /\ flatOutput' = HostAfter(Head(queue0))
    /\ done_ops' = Append(done_ops, Head(queue0))
    /\ queue0' = Tail(queue0)
    /\ UNCHANGED <<input, weights, bias, hstream, fault, junk, pc, flatInput,
                   flatWeights, flatBias, queueH, issued, syncReturned, readClean,
                   apiCalls, output, result>>
    /\ others

DevExecH ==
    /\ queueH # <<>>
    /\ dev' = DevAfter(Head(queueH))
    /\ flatOutput' = HostAfter(Head(queueH))
    /\ done_ops' = Append(done_ops, Head(queueH))
    /\ queueH' = Tail(queueH)
    /\ UNCHANGED <<input, weights, bias, hstream, fault, junk, pc, flatInput,
                   flatWeights, flatBias, queue0, issued, syncReturned, readClean,
                   apiCalls, output, result>>
    /\ others

\* The shapes the documentation of linearCUBLAS asks for.
ShapesOk ==
    /\ \A o \in 1..Len(weights) : Len(weights[o]) = inputDim
    /\ Len(bias) = outputDim

\* The handle's stream: 0 is the legacy default stream the copies and the
\* kernel use; 1 is a stream created with cudaStreamNonBlocking.
HandleStreams == {0, 1}

Anomalies(ok, f, h) ==
    (IF ok THEN 0 ELSE 1) + (IF f = "none" THEN 0 ELSE 1) + (IF h = 0 THEN 0 ELSE 1)

KerIdle ==
    /\ k_batch = 0 /\ k_outDim = 0 /\ k_out = <<>> /\ k_bias = <<>> /\ k_launch = <<>>
    /\ k_pc = <<>> /\ k_reg = <<>> /\ k_exited = {} /\ k_writers = <<>> /\ k_oob = {}

LinIdle ==
    /\ l_input = <<>> /\ l_weights = <<>> /\ l_bias = <<>> /\ l_pc = "idle"
    /\ l_out = <<>> /\ l_claimed = {} /\ w_row = <<>> /\ w_col = <<>>
    /\ w_phase = <<>> /\ w_reg = <<>> /\ l_adds = <<>>

CubIdle ==
    /\ input = <<>> /\ weights = <<>> /\ bias = <<>> /\ hstream = 0
    /\ fault = "none" /\ junk = 0 /\ pc = "idle" /\ flatInput = <<>>
    /\ flatWeights = <<>> /\ flatBias = <<>> /\ flatOutput = <<>> /\ dev = <<>>
    /\ queue0 = <<>> /\ queueH = <<>> /\ issued = <<>> /\ done_ops = <<>>
    /\ syncReturned = FALSE /\ readClean = FALSE /\ apiCalls = 0
    /\ output = <<>> /\ result = "pending"

\* A call of linearCUBLAS: any shapes within the bounds, with at most one of
\* a shape mismatch, a failing call and a handle on another stream.
Init ==
    /\ \E b \in 1..MaxBatch, k \in 1..MaxIn, o \in 1..MaxOut,
          wc \in 1..MaxIn, bl \in 1..MaxOut, s \in 0..MaxSeed :
          /\ input = GenMatrix(s, 1, b, k)
          /\ weights = GenMatrix(s, 2, o, wc)
          /\ bias = GenVector(s, 3, bl)
          /\ hstream \in HandleStreams
          /\ fault \in Faults
          /\ Anomalies(wc = k /\ bl = o, fault, hstream) <= 1
    /\ junk \in JunkVals
    /\ pc = "flatten"
    /\ flatInput = <<>> /\ flatWeights = <<>> /\ flatBias = <<>> /\ flatOutput = <<>>
    /\ dev = [b \in Buffers |-> [state |-> "unset", data |-> <<>>]]
    /\ queue0 = <<>> /\ queueH = <<>> /\ issued = <<>> /\ done_ops = <<>>
    /\ syncReturned = FALSE /\ readClean = FALSE /\ apiCalls = 0
    /\ output = <<>> /\ result = "pending"
    /\ KerIdle /\ LinIdle

Next ==
    \/ Flatten
    \/ MallocInput \/ MallocWeights \/ MallocBias \/ MallocOutput
    \/ H2DInput \/ H2DWeights \/ H2DBias
    \/ GemmIssue \/ KernelLaunch \/ D2HIssue
    \/ Sync \/ Reassemble
    \/ FreeInput \/ FreeWeights \/ FreeBias \/ FreeOutput
    \/ Return
    \/ DevExec0 \/ DevExecH

Spec == Init /\ [][Next]_vars

(***************************************************************************)
(* SpecKernel: one launch of addBiasEfficient<<<blocks, threads>>>.  The   *)
(* threads run in any order; output[idx] += bias[col] is a load followed   *)
(* by a store, and other threads may run in between.  A thread that fails  *)
(* the guard has nothing to do: those of one block return in one step.     *)
(***************************************************************************)
cubFrozen == UNCHANGED cubVars

GuardedThreads(b, o) == {t \in LaunchThreads(b, o) : KernelGuard(t, b, o)}

KInit ==
    /\ \E b \in 1..MaxBatch, o \in 1..MaxOut, s \in 0..MaxSeed :
          /\ k_batch = b
          /\ k_outDim = o
          /\ k_out = [p \in 0..(b * o - 1) |-> Elem(s, 4, p, 0)]
          /\ k_bias = [c \in 0..(o - 1) |-> Elem(s, 3, 0, c + 1)]
          /\ k_launch = [out |-> [p \in 0..(b * o - 1) |-> Elem(s, 4, p, 0)],
                          bias |-> [c \in 0..(o - 1) |-> Elem(s, 3, 0, c + 1)]]
          /\ k_pc = [t \in GuardedThreads(b, o) |-> "ready"]
          /\ k_reg = [t \in GuardedThreads(b, o) |-> 0]
          /\ k_writers = [p \in 0..(b * o - 1) |-> {}]
    /\ k_exited = {}
    /\ k_oob = {}
    /\ CubIdle /\ LinIdle

\* line 55, the read half: output[idx] and bias[col]
ThreadLoad(t) ==
    /\ k_pc[t] = "ready"
    /\ \E j \in JunkVals :
          k_reg' = [k_reg EXCEPT ![t] =
                       ReadAt(k_out, KernelIdx(t, k_batch, k_outDim), j)
                       + ReadAt(k_bias, ThreadCol(t), j)]
    /\ k_pc' = [k_pc EXCEPT ![t] = "loaded"]
    /\ UNCHANGED <<k_batch, k_outDim, k_out, k_bias, k_launch, k_exited, k_writers, k_oob>>
    /\ cubFrozen /\ linFrozen

\* line 55, the write half
ThreadStore(t) ==
    /\ k_pc[t] = "loaded"
    /\ LET idx == KernelIdx(t, k_batch, k_outDim)
       IN  IF idx \in DOMAIN k_out
           THEN /\ k_out' = [k_out EXCEPT ![idx] = k_reg[t]]
                /\ k_writers' = [k_writers EXCEPT ![idx] = @ \cup {t}]
                /\ UNCHANGED k_oob
           ELSE /\ k_oob' = k_oob \cup {idx}
                /\ UNCHANGED <<k_out, k_writers>>
    /\ k_pc' = [k_pc EXCEPT ![t] = "done"]
    /\ UNCHANGED <<k_batch, k_outDim, k_bias, k_launch, k_reg, k_exited>>
    /\ cubFrozen /\ linFrozen

\* line 50 false: the block's threads outside the matrix return.
BlockExit(blk) ==
    /\ blk \notin k_exited
    /\ k_exited' = k_exited \cup {blk}
    /\ UNCHANGED <<k_batch, k_outDim, k_out, k_bias, k_launch, k_pc, k_reg, k_writers, k_oob>>
    /\ cubFrozen /\ linFrozen

KernelDone ==
    /\ \A t \in DOMAIN k_pc : k_pc[t] = "done"
    /\ k_exited = LaunchBlocks(k_batch, k_outDim)

KNext ==
    \/ \E t \in DOMAIN k_pc : ThreadLoad(t)
    \/ \E t \in DOMAIN k_pc : ThreadStore(t)
    \/ \E blk \in LaunchBlocks(k_batch, k_outDim) : BlockExit(blk)

SpecKernel == KInit /\ [][KNext]_vars

(***************************************************************************)
(* linear: matmul, the OpenMP bias pass, ReLU.  matmul and reluCUDA_batch  *)
(* are declared in Syntari.cuH; their bodies are not part of these files.  *)
(***************************************************************************)
Matmul(A, B) ==
    [i \in 1..Len(A) |->
        [c \in 1..Len(B[1]) |->
            SumTo([k \in 1..Len(B) |-> A[i][k] * B[k][c]], Len(B))]]

Relu(x) == IF x > 0 THEN x ELSE 0

reluCUDA_batch(m) == [i \in 1..Len(m) |-> [c \in 1..Len(m[i]) |-> Relu(m[i][c])]]

\* linear as a function of its arguments (the result of a sequential run).
linear(in, w, b) ==
    LET mm == Matmul(in, w)
    IN  reluCUDA_batch([i \in 1..Len(mm) |-> [c \in 1..Len(mm[1]) |-> mm[i][c] + b[c]]])

\* The shapes linear's documentation asks for.
LinearAccepts(in, w, b) == Len(w) = Len(in[1]) /\ Len(b) = Len(w[1])

Workers == 1..NumWorkers
batch_size == Len(l_out)
output_dim == Len(l_out[1])

\* #pragma omp parallel for hands each iteration i to one worker.
UnclaimedRowsShared == 1..batch_size
UnclaimedRows == (1..batch_size) \ l_claimed

\* output[i][j] += bias[j], the value stored
BiasStoreAssign(reg, b, i, j) == b[j]
BiasStore(reg, b, i, j) == reg + b[j]

LInit ==
    /\ \E m \in 1..MaxBatch, k \in 1..MaxIn, n \in 1..MaxOut, s \in 0..MaxSeed :
          /\ l_input = GenMatrix(s, 1, m, k)
          /\ l_weights = GenMatrix(s, 2, k, n)
          /\ l_bias = GenVector(s, 3, n)
    /\ l_pc = "matmul"
    /\ l_out = <<>>
    /\ l_claimed = {}
    /\ w_row = [w \in Workers |-> 0]
    /\ w_col = [w \in Workers |-> 0]
    /\ w_phase = [w \in Workers |-> "idle"]
    /\ w_reg = [w \in Workers |-> 0]
    /\ l_adds = <<>>
    /\ CubIdle /\ KerIdle

\* lines 22-24
LMatmul ==
    /\ l_pc = "matmul"
    /\ l_out' = Matmul(l_input, l_weights)
    /\ l_adds' = [i \in 1..Len(l_input) |-> [c \in 1..Len(l_weights[1]) |-> 0]]
    /\ l_pc' = "bias"
    /\ UNCHANGED <<l_input, l_weights, l_bias, l_claimed, w_row, w_col, w_phase, w_reg>>
    /\ cubFrozen /\ kerFrozen

\* line 28: a worker takes an iteration of the parallel loop
WorkerClaim(w) ==
    /\ l_pc = "bias"
    /\ w_phase[w] = "idle"
    /\ \E i \in UnclaimedRows :
          /\ w_row' = [w_row EXCEPT ![w] = i]
          /\ l_claimed' = l_claimed \cup {i}
    /\ w_col' = [w_col EXCEPT ![w] = 1]
    /\ w_phase' = [w_phase EXCEPT ![w] = "load"]
    /\ UNCHANGED <<l_input, l_weights, l_bias, l_pc, l_out, w_reg, l_adds>>
    /\ cubFrozen /\ kerFrozen

\* line 30, the read half
WorkerLoad(w) ==
    /\ w_phase[w] = "load"
    /\ w_reg' = [w_reg EXCEPT ![w] = l_out[w_row[w]][w_col[w]]]
    /\ w_phase' = [w_phase EXCEPT ![w] = "store"]
    /\ UNCHANGED <<l_input, l_weights, l_bias, l_pc, l_out, l_claimed, w_row, w_col, l_adds>>
    /\ cubFrozen /\ kerFrozen

\* line 30, the write half, and line 29's ++j
WorkerStore(w) ==
    /\ w_phase[w] = "store"
    /\ l_out' = [l_out EXCEPT ![w_row[w]][w_col[w]] =
                    BiasStore(w_reg[w], l_bias, w_row[w], w_col[w])]
    /\ l_adds' = [l_adds EXCEPT ![w_row[w]][w_col[w]] = @ + 1]
    /\ IF w_col[w] < output_dim
       THEN /\ w_col' = [w_col EXCEPT ![w] = @ + 1]
            /\ w_phase' = [w_phase EXCEPT ![w] = "load"]
            /\ UNCHANGED w_row
       ELSE /\ w_col' = [w_col EXCEPT ![w] = 0]
            /\ w_row' = [w_row EXCEPT ![w] = 0]
            /\ w_phase' = [w_phase EXCEPT ![w] = "idle"]
    /\ UNCHANGED <<l_input, l_weights, l_bias, l_pc, l_claimed, w_reg>>
    /\ cubFrozen /\ kerFrozen

\* The barrier that ends the parallel loop: no iteration left, no worker busy.
BiasPassOver ==
    /\ l_pc = "bias"
    /\ UnclaimedRows = {}
    /\ \A w \in Workers : w_phase[w] = "idle"

\* line 32
Activation ==
    /\ BiasPassOver
    /\ l_out' = reluCUDA_batch(l_out)
    /\ l_pc' = "return"
    /\ UNCHANGED <<l_input, l_weights, l_bias, l_claimed, w_row, w_col, w_phase, w_reg, l_adds>>
    /\ cubFrozen /\ kerFrozen

\* line 34
LReturn ==
    /\ l_pc = "return"
    /\ l_pc' = "done"
    /\ UNCHANGED <<l_input, l_weights, l_bias, l_out, l_claimed, w_row, w_col, w_phase,
                   w_reg, l_adds>>
    /\ cubFrozen /\ kerFrozen

LNext ==
    \/ LMatmul
    \/ \E w \in Workers : WorkerClaim(w)
    \/ \E w \in Workers : WorkerLoad(w)
    \/ \E w \in Workers : WorkerStore(w)
    \/ Activation
    \/ LReturn

SpecLinear == LInit /\ [][LNext]_vars

(***************************************************************************)
(*                              The claims                                 *)
(***************************************************************************)
PreActivation(in, w, b, i, c) == Matmul(in, w)[i][c] + b[c]

\* C1: linear hands the activation exactly matmul(input, weights)[i][j] +
\* bias[j] at every (i, j) of the M x N product, and returns the ReLU of
\* that value at every (i, j), in an M x N matrix.
C1_LinearIsReluOfAffine ==
    /\ BiasPassOver =>
          \A i \in 1..Len(l_input), c \in 1..Len(l_bias) :
              l_out[i][c] = PreActivation(l_input, l_weights, l_bias, i, c)
    /\ l_pc = "done" =>
          /\ Len(l_out) = Len(l_input)
          /\ \A i \in 1..Len(l_input) :
                /\ Len(l_out[i]) = Len(l_weights[1])
                /\ \A c \in 1..Len(l_bias) :
                      LET v == PreActivation(l_input, l_weights, l_bias, i, c)
                      IN  l_out[i][c] = IF v > 0 THEN v ELSE 0

\* C1's case: a 2 x 2 result returned in which the activation clamped one
\* element and passed another through with its bias added.
C1_Witness ==
    /\ l_pc = "done"
    /\ Len(l_input) = 2 /\ Len(l_bias) = 2 /\ Len(l_weights) = 2
    /\ \E i \in 1..2, c \in 1..2 :
          PreActivation(l_input, l_weights, l_bias, i, c) < 0 /\ l_out[i][c] = 0
    /\ \E i \in 1..2, c \in 1..2 :
          /\ l_out[i][c] > 0
          /\ l_bias[c] # 0
          /\ l_out[i][c] = Matmul(l_input, l_weights)[i][c] + l_bias[c]

\* What linearCUBLAS documents as its result: input * weights^T + bias.
AffineTransposed ==
    [b \in 1..batchSize |->
        [o \in 1..outputDim |->
            SumTo([k \in 1..inputDim |-> input[b][k] * weights[o][k]], inputDim) + bias[o]]]

\* A call on operands of the documented shapes in which every device call
\* succeeds and the handle is bound to the stream the copies and the kernel use.
NormalRun == fault = "none" /\ hstream = 0 /\ ShapesOk

\* C2: for input (batchSize x inputDim), weights (outputDim x inputDim) and
\* bias (outputDim), linearCUBLAS returns output[b][o] = sum over k of
\* input[b][k] * weights[o][k], plus bias[o]: the column-major GEMM, the
\* kernel's index and the host's slices address one row-major layout.
C2_CublasIsAffineTransposed ==
    (result = "returned" /\ NormalRun) =>
        /\ Len(output) = batchSize
        /\ \A b \in 1..batchSize : Len(output[b]) = outputDim
        /\ output = AffineTransposed

\* C2's case: a 2 x 2 x 2 call has returned a matrix that differs from its
\* own transpose and whose rows are not constant.
C2_Witness ==
    /\ result = "returned" /\ NormalRun
    /\ batchSize = 2 /\ inputDim = 2 /\ outputDim = 2
    /\ output = AffineTransposed
    /\ output[1][2] # output[2][1]
    /\ output[1][1] # output[1][2]

\* C3: on the same (input, weights, bias), linear and linearCUBLAS accept
\* the same operand shapes and return the same matrix, element for element.
C3_StrategiesInterchangeable ==
    (result = "returned" /\ NormalRun) =>
        /\ LinearAccepts(input, weights, bias)
        /\ output = linear(input, weights, bias)

\* C4: with incompatible operand shapes the call makes no device call at
\* all and ends reporting InvalidDimension.
C4_InvalidDimensionBeforeDevice ==
    ~ShapesOk =>
        /\ apiCalls = 0
        /\ pc = "ended" => result = "InvalidDimension"

Released(b) ==
    \/ dev[b].state # "alloc"
    \/ \E n \in 1..Len(issued) : issued[n] \in FreeOps /\ FreedBuffer(issued[n]) = b

\* C5: when the call has ended, by return or by an exception of the host
\* code, every device buffer it allocated has been released, once.  (Stated
\* for the calls in which no device call fails.)
C5_BuffersReleasedOnEveryExit ==
    (pc = "ended" /\ fault \in {"none", "reassemble"}) =>
        /\ \A b \in Buffers : Released(b)
        /\ \A n1, n2 \in 1..Len(issued) :
              (issued[n1] \in FreeOps /\ issued[n1] = issued[n2]) => n1 = n2

\* C6: when an allocation, a transfer, the matmul or the kernel launch has
\* failed, the call ends with a failure surfaced to its caller, never with
\* a returned matrix.
C6_DeviceFailureSurfaced ==
    (pc = "ended" /\ fault \in DeviceSteps \ (FreeOps \cup {"sync"})) =>
        result = "DeviceError"

HostHasRead == pc \in {"free_input", "free_weights", "free_bias", "free_output", "return"}
                \/ (pc = "ended" /\ result = "returned")

\* C7: the host reads flatOutput only after the blocking wait has returned,
\* with the device-to-host copy complete and no device operation of the
\* call pending, and issues the frees only after that wait.  (Stated for
\* the calls in which no call fails.)
C7_WaitBeforeRead ==
    fault = "none" =>
        /\ HostHasRead => readClean
        /\ (\E n \in 1..Len(issued) : issued[n] \in FreeOps) => syncReturned

\* In done_ops, every occurrence of b comes after an occurrence of a.
Precedes(a, b) ==
    \A n \in 1..Len(done_ops) :
        done_ops[n] = b => \E m \in 1..(n - 1) : done_ops[m] = a

\* C8: whatever stream the handle is bound to, the matmul runs after the
\* copies of input and weights, the bias kernel after the matmul and the
\* copy of bias, and the copy back after the bias kernel.  (Stated for the
\* calls in which no call fails.)
C8_DeviceOpsInIssueOrder ==
    fault = "none" =>
        /\ Precedes("h2d_input", "gemm")
        /\ Precedes("h2d_weights", "gemm")
        /\ Precedes("gemm", "bias_kernel")
        /\ Precedes("h2d_bias", "bias_kernel")
        /\ Precedes("bias_kernel", "d2h")

RECURSIVE BiasPassSeq(_, _, _)
\* The bias pass run by one thread over rows 1..i.
BiasPassSeq(m, b, i) ==
    IF i = 0 THEN m
    ELSE [BiasPassSeq(m, b, i - 1) EXCEPT ![i] = [c \in 1..Len(m[i]) |-> m[i][c] + b[c]]]

\* C10: in the bias pass of linear no two workers work on the same row (so
\* never on the same element), under every interleaving; every element
\* receives its bias once; and what the pass leaves is what a sequential
\* pass over the rows leaves.
C10_WorkersDisjoint ==
    /\ \A w1, w2 \in Workers :
          (w1 # w2 /\ w_phase[w1] # "idle" /\ w_phase[w2] # "idle")
              => w_row[w1] # w_row[w2]
    /\ l_pc = "bias" =>
          \A i \in 1..batch_size, c \in 1..output_dim : l_adds[i][c] <= 1
    /\ BiasPassOver =>
          /\ \A i \in 1..batch_size, c \in 1..output_dim : l_adds[i][c] = 1
          /\ l_out = BiasPassSeq(Matmul(l_input, l_weights), l_bias, Len(l_input))

\* C10's case: two workers are between load and store on two different
\* rows at the same moment.
C10_Witness ==
    /\ l_pc = "bias"
    /\ \E w1, w2 \in Workers :
          /\ w1 # w2
          /\ w_phase[w1] = "store" /\ w_phase[w2] = "store"
          /\ w_row[w1] # w_row[w2]
          /\ l_bias[w_col[w1]] # 0

====
